---- MODULE Spec2Model ----
(***************************************************************************)
(* Model of the CTRansformers binding (src/c_transformers/__init__.py):    *)
(* construction with model family resolution, the tokenize / detokenize    *)
(* pass-throughs and the streaming generate loop.                          *)
(*                                                                         *)
(* Python strings are sequences of one-character strings, so that the      *)
(* substring test `in`, str.lower() and `+=` are computed, not assumed.    *)
(* The wrapped library (ctransformers) is the environment: each call into  *)
(* it either returns or raises an Exception, and its token stream is       *)
(* arbitrary when the seed it is handed is negative and a function of its  *)
(* arguments when the seed is >= 0.                                        *)
(***************************************************************************)
EXTENDS Integers, Sequences, FiniteSets, TLC

VARIABLES
    config,       \* the host configuration: model_name, seed, n_threads
    ctor,         \* "pending" | "returned" | "raised": how __init__ ended
    model_type,   \* the local model_type of __init__ ("" while unassigned)
    model,        \* self.model: "unset" (attribute missing) | "loaded"
    lib,          \* the lib argument of from_pretrained ("" = library default)
    console,      \* what print() wrote, in order
    n_past,       \* the model's generation state: tokens held in its context
    entry_dirty,  \* the generate call in progress found n_past > 0
    calls,        \* number of public operations started on the adapter
    history,      \* the last finished generate call (kept when history.on)
    pc,           \* position of the operation in progress ("idle" when none)
    op,           \* the operation in progress or last finished
    prompt, n_predict, callback, call_params,   \* the arguments of generate
    gpt_params,   \* generate's merged gpt_params
    tokens,       \* generate's local tokens
    stream_args,  \* the keyword arguments handed to self.model.generate
    produced,     \* the tokens the stream has yielded in this call, in order
    tok, word, output, count,                   \* generate's locals
    appended,     \* the chunks appended to output in this call, in order
    cb_log,       \* the chunks the callback was invoked with, in order
    exit_by,      \* how the loop ended: "" | "limit" | "eos" | "exhausted" | "cancel" | "except"
    ex,           \* the exception in flight ("" when none)
    faulted,      \* the wrapped library raised during this call
    outcome,      \* "returned" | "raised": how the last operation ended
    ret           \* the value the last operation returned

vars == <<config, ctor, model_type, model, lib, console, n_past, entry_dirty,
          calls, history,
          pc, op, prompt, n_predict, callback, call_params, gpt_params, tokens,
          stream_args, produced, tok, word, output, count, appended, cb_log,
          exit_by, ex, faulted, outcome, ret>>

ctorVars == <<ctor, model_type, model, lib>>
callVars == <<prompt, n_predict, callback, call_params, gpt_params>>
loopVars == <<tokens, stream_args, produced, tok, word, output, count,
              appended, cb_log, exit_by>>

-----------------------------------------------------------------------------
(* Bounds *)

\* Longest token stream the wrapped model yields in one call.
MaxStream == 3
\* Largest n_predict a caller passes (the smallest is -1).
MaxPredict == 2
\* Number of public operations (tokenize, detokenize, generate) per adapter.
MaxCalls == 2
\* Number of name fragments concatenated into a model_name.
MaxParts == 2

-----------------------------------------------------------------------------
(* Python strings *)

UpperChars == <<"A","B","C","D","E","F","G","H","I","J","K","L","M",
                "N","O","P","Q","R","S","T","U","V","W","X","Y","Z">>
LowerChars == <<"a","b","c","d","e","f","g","h","i","j","k","l","m",
                "n","o","p","q","r","s","t","u","v","w","x","y","z">>

\* str.lower() of one character
LowerChar(c) ==
    IF \E i \in 1..Len(UpperChars) : UpperChars[i] = c
    THEN LowerChars[CHOOSE i \in 1..Len(UpperChars) : UpperChars[i] = c]
    ELSE c

\* s.lower()
Lower(s) == [i \in 1..Len(s) |-> LowerChar(s[i])]

\* sub in s
Contains(sub, s) ==
    \E i \in 0..(Len(s) - Len(sub)) : SubSeq(s, i + 1, i + Len(sub)) = sub

\* "".join(chunks)
RECURSIVE Concat(_)
Concat(chunks) ==
    IF chunks = <<>> THEN <<>> ELSE Head(chunks) \o Concat(Tail(chunks))

s_gpt2          == <<"g","p","t","2">>
s_gptj          == <<"g","p","t","j">>
s_gpt_neox      == <<"g","p","t","_","n","e","o","x">>
s_dolly_v2      == <<"d","o","l","l","y","-","v","2">>
s_starcoder     == <<"s","t","a","r","c","o","d","e","r">>
s_starchat_beta == <<"s","t","a","r","c","h","a","t","-","b","e","t","a">>
s_WizardCoder   == <<"W","i","z","a","r","d","C","o","d","e","r">>
s_mpt           == <<"m","p","t">>
s_llama         == <<"l","l","a","m","a">>
s_wizardlm      == <<"w","i","z","a","r","d","l","m">>
s_vigogne       == <<"v","i","g","o","g","n","e">>
s_ggml          == <<"g","g","m","l">>

-----------------------------------------------------------------------------
(* __init__: model family resolution *)

\* Mutant: the last group matched case-sensitively like the others.
ModelTypeCaseSensitive(name) ==
    IF Contains(s_gpt2, name) THEN "gpt2"
    ELSE IF Contains(s_gptj, name) THEN "gptj"
    ELSE IF Contains(s_gpt_neox, name) THEN "gpt_neox"
    ELSE IF Contains(s_dolly_v2, name) THEN "dolly-v2"
    ELSE IF \/ Contains(s_starcoder, name)
            \/ Contains(s_starchat_beta, name)
            \/ Contains(s_WizardCoder, name) THEN "starcoder"
    ELSE IF Contains(s_mpt, name) THEN "mpt"
    ELSE IF \/ Contains(s_llama, name)
            \/ Contains(s_wizardlm, name)
            \/ Contains(s_vigogne, name)
            \/ Contains(s_ggml, name) THEN "llama"
    ELSE ""

\* The if / elif chain of __init__; "" is the else branch (model_type never
\* assigned).
ModelType(name) ==
    IF Contains(s_gpt2, name) THEN "gpt2"
    ELSE IF Contains(s_gptj, name) THEN "gptj"
    ELSE IF Contains(s_gpt_neox, name) THEN "gpt_neox"
    ELSE IF Contains(s_dolly_v2, name) THEN "dolly-v2"
    ELSE IF \/ Contains(s_starcoder, name)
            \/ Contains(s_starchat_beta, name)
            \/ Contains(s_starchat_beta, name)
            \/ Contains(s_WizardCoder, name) THEN "starcoder"
    ELSE IF Contains(s_mpt, name) THEN "mpt"
    ELSE IF \/ Contains(s_llama, Lower(name))
            \/ Contains(s_wizardlm, Lower(name))
            \/ Contains(s_vigogne, Lower(name))
            \/ Contains(s_ggml, Lower(name)) THEN "llama"
    ELSE ""

UnsupportedMessage == "The model you are using is not supported by this binding"

\* __init__. With no family resolved it prints and returns before self.model
\* is assigned. Otherwise it loads the local configuration and the model
\* (lib = "avx" unless use_avx2), either of which may raise to the caller.
Construct ==
    /\ ctor = "pending"
    /\ model_type' = ModelType(config.model_name)
    /\ IF model_type' = ""
       THEN /\ console' = Append(console, UnsupportedMessage)
            /\ ctor' = "returned"
            /\ UNCHANGED <<model, lib>>
       ELSE /\ UNCHANGED console
            /\ \/ /\ ctor' = "raised"
                  /\ UNCHANGED <<model, lib>>
               \/ /\ \E use_avx2 \in BOOLEAN :
                        lib' = IF use_avx2 THEN "" ELSE "avx"
                  /\ model' = "loaded"
                  /\ ctor' = "returned"
    /\ UNCHANGED <<config, n_past, entry_dirty, calls, history, pc, op,
                   callVars, loopVars, ex, faulted, outcome, ret>>

-----------------------------------------------------------------------------
(* The wrapped library, as far as the adapter sees it *)

\* Token ids of the model's vocabulary; 0 is its end-of-sequence token.
Vocab == 0..3

\* self.model.is_eos_token(tok)
IsEosToken(t) == t = 0

\* self.model.detokenize(tok) of one token: its text (token 3 decodes to the
\* empty string, as a token holding part of a multi-byte character does).
DetokOne(t) ==
    CASE t = 1 -> <<"a">>
      [] t = 2 -> <<"b">>
      [] OTHER -> <<>>

\* self.model.detokenize(tokens_list)
Detok(ts) == Concat([i \in 1..Len(ts) |-> DetokOne(ts[i])])

\* self.model.tokenize(prompt): one token per character
TokenOf(c) == IF c = "a" THEN 1 ELSE IF c = "b" THEN 2 ELSE 3
ModelTokenize(text) == [i \in 1..Len(text) |-> TokenOf(text[i])]

RECURSIVE SumSeq(_)
SumSeq(s) == IF s = <<>> THEN 0 ELSE Head(s) + SumSeq(Tail(s))

\* The token a seeded (seed >= 0) stream yields at position pos: a function
\* of the prompt tokens and of the sampling arguments, nothing else.
SeededToken(toks, args, pos) ==
    (SumSeq(toks) + args.seed + args.top_k + args.top_p + args.temperature
       + args.repetition_penalty + pos) % 4

\* The tokens self.model.generate(...) may yield next.
NextTokens(toks, args, pos) ==
    IF args.seed >= 0 THEN {SeededToken(toks, args, pos)} ELSE Vocab

-----------------------------------------------------------------------------
(* generate: parameters *)

\* default_params. Fractions are held in hundredths (temperature 0.7 is 70,
\* top_p 0.96 is 96, repeat_penalty 1.3 is 130); top_k, seed and n_threads
\* are the integers of the source.
default_params ==
    [temperature |-> 70, top_k |-> 50, top_p |-> 96, repeat_penalty |-> 130,
     seed |-> -1, n_threads |-> 8]

\* Mutant: the merge written the other way round, defaults last.
MergeDefaultsWin(d, g) ==
    [k \in DOMAIN d \cup DOMAIN g |-> IF k \in DOMAIN d THEN d[k] ELSE g[k]]

\* {**d, **g}
Merge(d, g) ==
    [k \in DOMAIN d \cup DOMAIN g |-> IF k \in DOMAIN g THEN g[k] ELSE d[k]]

\* The keyword arguments of the self.model.generate(...) call. seed and
\* threads are read from self.config, not from gpt_params.
StreamArgs(gp, cfg) ==
    [top_k |-> gp.top_k, top_p |-> gp.top_p, temperature |-> gp.temperature,
     repetition_penalty |-> gp.repeat_penalty,
     seed |-> cfg.seed, batch_size |-> 1, threads |-> cfg.n_threads,
     reset |-> TRUE]

\* The empty **gpt_params
NoParams == [k \in {} |-> 0]

NoArgs ==
    [top_k |-> 0, top_p |-> 0, temperature |-> 0, repetition_penalty |-> 0,
     seed |-> 0, batch_size |-> 0, threads |-> 0, reset |-> FALSE]

\* The callbacks a caller passes. kind "None": callback=None; "bool": the
\* argument left out, so the signature's default, the builtin bool; the
\* others are a user function that returns truthy until its at-th
\* invocation, where it returns falsy ("cancel") or raises ("raise"), or
\* that always returns truthy ("accept").
CallbackNone == [kind |-> "None", at |-> 0]
CallbackOmitted == [kind |-> "bool", at |-> 0]
UserCallbacks ==
    {[kind |-> "accept", at |-> 0]}
      \cup {[kind |-> k, at |-> i] : k \in {"cancel", "raise"}, i \in 1..MaxStream}

\* What callback(word, MSG_TYPE.MSG_TYPE_CHUNK) does on its k-th invocation.
\* bool(word, kind) raises TypeError: bool takes at most one argument.
CallbackResult(cb, k) ==
    CASE cb.kind = "bool" -> "TypeError"
      [] cb.kind = "cancel" /\ k = cb.at -> "falsy"
      [] cb.kind = "raise" /\ k = cb.at -> "CallbackError"
      [] OTHER -> "truthy"

-----------------------------------------------------------------------------
(* generate: the call, step by step *)

fixedVars == <<config, ctor, model_type, model, lib, entry_dirty, calls,
               history, op,
               prompt, n_predict, callback, call_params, gpt_params,
               outcome, ret>>

\* An exception raised inside the try block: control goes to the handler.
Raise(e, fromLibrary) ==
    /\ ex' = e
    /\ exit_by' = "except"
    /\ faulted' = (faulted \/ fromLibrary)
    /\ pc' = "except"

\* Lines 124-134: the merge and output = "".
GenerateBegin(Ps, Ns, Cs, Gs) ==
    /\ pc = "idle"
    /\ ctor = "returned"
    /\ calls < MaxCalls
    /\ \E p \in Ps, n \in Ns, c \in Cs, g \in Gs :
          /\ prompt' = p
          /\ n_predict' = n
          /\ callback' = c
          /\ call_params' = g
          /\ gpt_params' = Merge(default_params, g)
    /\ output' = <<>>
    /\ op' = "generate"
    /\ calls' = calls + 1
    /\ outcome' = "running"
    /\ ret' = <<>>
    /\ tokens' = <<>>
    /\ stream_args' = NoArgs
    /\ produced' = <<>>
    /\ tok' = 0
    /\ word' = <<>>
    /\ count' = 0
    /\ appended' = <<>>
    /\ cb_log' = <<>>
    /\ exit_by' = ""
    /\ ex' = ""
    /\ faulted' = FALSE
    /\ entry_dirty' = (n_past > 0)
    /\ pc' = "reset"
    /\ UNCHANGED <<config, ctorVars, console, n_past, history>>

\* Mutant: reset() left out.
ResetStateKept(n) == n

\* The model's generation state after self.model.reset().
ResetState(n) == 0

\* Line 135: self.model.reset(). Without a model attribute the attribute
\* lookup raises AttributeError.
ModelReset ==
    /\ pc = "reset"
    /\ IF model = "unset"
       THEN /\ Raise("AttributeError", FALSE)
            /\ UNCHANGED n_past
       ELSE \/ /\ n_past' = ResetState(n_past)
               /\ pc' = "tokenize"
               /\ UNCHANGED <<ex, exit_by, faulted>>
            \/ /\ Raise("LibraryError", TRUE)
               /\ UNCHANGED n_past
    /\ UNCHANGED <<fixedVars, console, tokens, stream_args, produced, tok,
                   word, output, count, appended, cb_log>>

\* Lines 136-137: tokens = self.model.tokenize(prompt); count = 0.
TokenizePrompt ==
    /\ pc = "tokenize"
    /\ \/ /\ tokens' = ModelTokenize(prompt)
          /\ count' = 0
          /\ pc' = "open"
          /\ UNCHANGED <<ex, exit_by, faulted>>
       \/ /\ Raise("LibraryError", TRUE)
          /\ UNCHANGED <<tokens, count>>
    /\ UNCHANGED <<fixedVars, console, n_past, stream_args, produced, tok,
                   word, output, appended, cb_log>>

\* Lines 138-148: the call self.model.generate(...), which builds the
\* generator; nothing of the model runs before the first next().
OpenStream ==
    /\ pc = "open"
    /\ stream_args' = StreamArgs(gpt_params, config)
    /\ pc' = "next"
    /\ UNCHANGED <<fixedVars, console, n_past, tokens, produced, tok, word,
                   output, count, appended, cb_log, exit_by, ex, faulted>>

\* The for statement pulls the next token: the stream yields one, ends, or
\* raises. A stream called with reset=True clears the model's state itself
\* when it starts, evaluates the prompt and then each token it samples. A
\* seeded stream is a fixed sequence of MaxStream tokens.
StreamNext ==
    /\ pc = "next"
    /\ \/ /\ Len(produced) < MaxStream
          /\ \E t \in NextTokens(tokens, stream_args, Len(produced) + 1) :
                /\ produced' = Append(produced, t)
                /\ tok' = t
          /\ n_past' = (IF stream_args.reset \/ produced # <<>>
                        THEN 0 ELSE n_past) + Len(tokens) + Len(produced) + 1
          /\ pc' = "test"
          /\ UNCHANGED <<ex, exit_by, faulted>>
       \/ /\ stream_args.seed < 0 \/ Len(produced) = MaxStream
          /\ exit_by' = "exhausted"
          /\ pc' = "return"
          /\ UNCHANGED <<produced, tok, n_past, ex, faulted>>
       \/ /\ Raise("LibraryError", TRUE)
          /\ UNCHANGED <<produced, tok, n_past>>
    /\ UNCHANGED <<fixedVars, console, tokens, stream_args, word, output,
                   count, appended, cb_log>>

\* Mutant: off by one, one chunk too many.
LimitReachedLate(c, n) == c > n

\* count >= n_predict
LimitReached(c, n) == c >= n

\* Mutant: the end-of-sequence test left out.
LoopTestNoEos ==
    /\ pc = "test"
    /\ IF LimitReached(count, n_predict)
       THEN /\ exit_by' = "limit"
            /\ pc' = "return"
       ELSE /\ pc' = "detok"
            /\ UNCHANGED exit_by
    /\ UNCHANGED <<fixedVars, console, n_past, tokens, stream_args, produced,
                   tok, word, output, count, appended, cb_log, ex, faulted>>

\* Lines 151-152: if count >= n_predict or self.model.is_eos_token(tok): break
\* (is_eos_token is not called when the limit is reached).
LoopTest ==
    /\ pc = "test"
    /\ IF LimitReached(count, n_predict)
       THEN /\ exit_by' = "limit"
            /\ pc' = "return"
            /\ UNCHANGED <<ex, faulted>>
       ELSE \/ /\ IsEosToken(tok)
               /\ exit_by' = "eos"
               /\ pc' = "return"
               /\ UNCHANGED <<ex, faulted>>
            \/ /\ ~IsEosToken(tok)
               /\ pc' = "detok"
               /\ UNCHANGED <<ex, exit_by, faulted>>
            \/ Raise("LibraryError", TRUE)
    /\ UNCHANGED <<fixedVars, console, n_past, tokens, stream_args, produced,
                   tok, word, output, count, appended, cb_log>>

\* Lines 157-158: output += word; count += 1, and back to the for statement.
AppendWord(w) ==
    /\ output' = output \o w
    /\ count' = count + 1
    /\ appended' = Append(appended, w)
    /\ pc' = "next"

\* Lines 153-155: word = self.model.detokenize(tok), then the callback is
\* invoked if it is not None; without one the chunk is appended at once.
DetokenizeToken ==
    /\ pc = "detok"
    /\ \/ /\ word' = DetokOne(tok)
          /\ IF callback.kind # "None"
             THEN /\ cb_log' = Append(cb_log, word')
                  /\ pc' = "callback"
                  /\ UNCHANGED <<output, count, appended>>
             ELSE /\ AppendWord(word')
                  /\ UNCHANGED cb_log
          /\ UNCHANGED <<ex, exit_by, faulted>>
       \/ /\ Raise("LibraryError", TRUE)
          /\ UNCHANGED <<word, output, count, appended, cb_log>>
    /\ UNCHANGED <<fixedVars, console, n_past, tokens, stream_args, produced,
                   tok>>

\* Mutant: the chunk is appended before the callback's answer is looked at.
CallbackReturnAppendsFirst ==
    /\ pc = "callback"
    /\ LET r == CallbackResult(callback, Len(cb_log)) IN
          CASE r = "truthy" ->
                  /\ AppendWord(word)
                  /\ UNCHANGED <<ex, exit_by, faulted>>
            [] r = "falsy" ->
                  /\ output' = output \o word
                  /\ count' = count + 1
                  /\ appended' = Append(appended, word)
                  /\ exit_by' = "cancel"
                  /\ pc' = "return"
                  /\ UNCHANGED <<ex, faulted>>
            [] OTHER ->
                  /\ Raise(r, FALSE)
                  /\ UNCHANGED <<output, count, appended>>
    /\ UNCHANGED <<fixedVars, console, n_past, tokens, stream_args, produced,
                   tok, word, cb_log>>

\* Lines 155-158: the callback returns or raises. Falsy: break, the chunk is
\* not appended. Truthy: the chunk is appended.
CallbackReturn ==
    /\ pc = "callback"
    /\ LET r == CallbackResult(callback, Len(cb_log)) IN
          CASE r = "truthy" ->
                  /\ AppendWord(word)
                  /\ UNCHANGED <<ex, exit_by, faulted>>
            [] r = "falsy" ->
                  /\ exit_by' = "cancel"
                  /\ pc' = "return"
                  /\ UNCHANGED <<output, count, appended, ex, faulted>>
            [] OTHER ->
                  /\ Raise(r, FALSE)
                  /\ UNCHANGED <<output, count, appended>>
    /\ UNCHANGED <<fixedVars, console, n_past, tokens, stream_args, produced,
                   tok, word, cb_log>>

\* Mutant: the handler prints and re-raises.
ExceptReraises ==
    /\ pc = "except"
    /\ console' = Append(console, ex)
    /\ outcome' = "raised"
    /\ pc' = "idle"
    /\ UNCHANGED <<config, ctorVars, n_past, entry_dirty, calls, history, op,
                   callVars, loopVars, ex, faulted, ret>>

\* Lines 161-162: except Exception as ex: print(ex).
Except ==
    /\ pc = "except"
    /\ console' = Append(console, ex)
    /\ ex' = ""
    /\ pc' = "return"
    /\ UNCHANGED <<fixedVars, n_past, loopVars, faulted>>

\* One finished generate call, as the history keeps it.
Run ==
    [prompt |-> prompt, n_predict |-> n_predict, callback |-> callback,
     params |-> call_params, faulted |-> faulted, out |-> output]

\* Line 163: return output. The call's arguments and locals end with it;
\* what was observed of the call's effects (appended, cb_log, exit_by,
\* faulted) stays until the next call begins.
Return ==
    /\ pc = "return"
    /\ ret' = output
    /\ outcome' = "returned"
    /\ history' = IF history.on
                  THEN [history EXCEPT !.runs = <<Run>>]
                  ELSE history
    /\ pc' = "idle"
    /\ prompt' = <<>>
    /\ n_predict' = 0
    /\ callback' = CallbackNone
    /\ call_params' = NoParams
    /\ gpt_params' = default_params
    /\ tokens' = <<>>
    /\ stream_args' = NoArgs
    /\ produced' = <<>>
    /\ tok' = 0
    /\ word' = <<>>
    /\ output' = <<>>
    /\ count' = 0
    /\ UNCHANGED <<config, ctorVars, console, n_past, entry_dirty, calls, op,
                   appended, cb_log, exit_by, ex, faulted>>

-----------------------------------------------------------------------------
(* tokenize and detokenize: pass-throughs *)

\* Mutant: the pass-through guarded by a check for the model handle.
PassThroughGuarded(value) ==
    /\ pc = "idle"
    /\ ctor = "returned"
    /\ calls < MaxCalls
    /\ calls' = calls + 1
    /\ IF model = "unset"
       THEN /\ outcome' = "returned"
            /\ ret' = <<>>
            /\ ex' = ""
       ELSE \/ /\ outcome' = "returned"
               /\ ret' = value
               /\ ex' = ""
            \/ /\ outcome' = "raised"
               /\ ret' = <<>>
               /\ ex' = "LibraryError"
    /\ UNCHANGED <<config, ctorVars, console, n_past, entry_dirty, history, pc,
                   callVars, loopVars, faulted>>

\* return self.model.<method>(argument): whatever the lookup of self.model
\* or the library raises goes to the caller.
PassThrough(value) ==
    /\ pc = "idle"
    /\ ctor = "returned"
    /\ calls < MaxCalls
    /\ calls' = calls + 1
    /\ IF model = "unset"
       THEN /\ outcome' = "raised"
            /\ ret' = <<>>
            /\ ex' = "AttributeError"
       ELSE \/ /\ outcome' = "returned"
               /\ ret' = value
               /\ ex' = ""
            \/ /\ outcome' = "raised"
               /\ ret' = <<>>
               /\ ex' = "LibraryError"
    /\ UNCHANGED <<config, ctorVars, console, n_past, entry_dirty, history, pc,
                   callVars, loopVars, faulted>>

\* The texts and token lists callers pass.
Prompts == {<<"a">>, <<"b", "a">>}
TokenLists == {<<1>>, <<2, 3, 1>>}

\* tokenize(prompt)
Tokenize ==
    /\ op' = "tokenize"
    /\ \E text \in Prompts : PassThrough(ModelTokenize(text))

\* detokenize(tokens_list)
Detokenize ==
    /\ op' = "detokenize"
    /\ \E ts \in TokenLists : PassThrough(Detok(ts))

-----------------------------------------------------------------------------
(* The adapter's callers and host configuration *)

p_some         == <<"s","o","m","e","-">>
p_model_bin    == <<"-","m","o","d","e","l",".","b","i","n">>
p_foo          == <<"f","o","o","-">>
p_unknown_arch == <<"u","n","k","n","o","w","n","-","a","r","c","h">>
p_LLaMA        == <<"L","L","a","M","A">>
p_WizardLM     == <<"W","i","z","a","r","d","L","M">>
p_GGML         == <<"G","G","M","L">>
p_GPT2         == <<"G","P","T","2">>
p_MPT          == <<"M","P","T">>
p_wizardcoder  == <<"w","i","z","a","r","d","c","o","d","e","r">>
p_gpt          == <<"g","p","t">>
p_j            == <<"j">>

\* Fragments of model file names: every substring __init__ looks for, case
\* variants of them, halves that only match across a seam, and neutral text.
Pieces ==
    {<<>>, s_gpt2, s_gptj, s_gpt_neox, s_dolly_v2, s_starcoder,
     s_starchat_beta, s_WizardCoder, s_mpt, s_llama, s_wizardlm, s_vigogne,
     s_ggml, p_some, p_model_bin, p_foo, p_unknown_arch, p_LLaMA, p_WizardLM,
     p_GGML, p_GPT2, p_MPT, p_wizardcoder, p_gpt, p_j}

RECURSIVE NamesOf(_)
NamesOf(k) ==
    IF k = 0 THEN {<<>>}
    ELSE {p \o r : p \in Pieces, r \in NamesOf(k - 1)}

name_some_llama  == p_some \o s_llama \o p_model_bin
name_foo_starchat == p_foo \o s_starchat_beta

\* Model names of the family check: all concatenations of MaxParts fragments
\* and the names the specification gives as examples.
AllNames == NamesOf(MaxParts) \cup {name_some_llama, name_foo_starchat, p_unknown_arch}

\* Model names of the other checks: one that loads, one of no family.
CoreNames == {name_some_llama, p_unknown_arch}

\* n_predict values
NPredicts == (-1)..MaxPredict

Callbacks == {CallbackNone, CallbackOmitted} \cup UserCallbacks

\* The recognized option keys and, for each, a value a caller supplies that
\* differs from its default.
Keys == {"temperature", "top_k", "top_p", "repeat_penalty", "seed", "n_threads"}
Supplied ==
    [temperature |-> 20, top_k |-> 10, top_p |-> 50, repeat_penalty |-> 100,
     seed |-> 1, n_threads |-> 2]

ParamsOver(S) == [k \in S |-> Supplied[k]]
AllParams == {ParamsOver(S) : S \in SUBSET Keys}
CoreParams == {NoParams, ParamsOver({"temperature"})}
SeedParams == {NoParams, ParamsOver({"seed"}), [seed |-> 0]}

InitWith(names, seeds, keep) ==
    /\ config \in [model_name : names, seed : seeds, n_threads : {4}]
    /\ ctor = "pending"
    /\ model_type = ""
    /\ model = "unset"
    /\ lib = ""
    /\ console = <<>>
    /\ n_past = 0
    /\ entry_dirty = FALSE
    /\ calls = 0
    /\ history = [on |-> keep, runs |-> <<>>]
    /\ pc = "idle"
    /\ op = "none"
    /\ prompt = <<>>
    /\ n_predict = 0
    /\ callback = CallbackNone
    /\ call_params = NoParams
    /\ gpt_params = default_params
    /\ tokens = <<>>
    /\ stream_args = NoArgs
    /\ produced = <<>>
    /\ tok = 0
    /\ word = <<>>
    /\ output = <<>>
    /\ count = 0
    /\ appended = <<>>
    /\ cb_log = <<>>
    /\ exit_by = ""
    /\ ex = ""
    /\ faulted = FALSE
    /\ outcome = "none"
    /\ ret = <<>>

\* The steps of a generate call in progress.
GenerateStep ==
    \/ ModelReset
    \/ TokenizePrompt
    \/ OpenStream
    \/ StreamNext
    \/ LoopTest
    \/ DetokenizeToken
    \/ CallbackReturn
    \/ Except
    \/ Return

\* Any callers, any callback, a seeded or an unseeded host configuration.
Init == InitWith(CoreNames, {-1, 0}, FALSE)
Next ==
    \/ Construct
    \/ Tokenize
    \/ Detokenize
    \/ GenerateBegin(Prompts, NPredicts, Callbacks, CoreParams)
    \/ GenerateStep
Spec == Init /\ [][Next]_vars

\* Every subset of the option keys supplied.
InitParams == InitWith({name_some_llama}, {0}, FALSE)
NextParams ==
    \/ Construct
    \/ Tokenize
    \/ Detokenize
    \/ GenerateBegin({<<"a">>}, {1}, {CallbackNone, CallbackOmitted}, AllParams)
    \/ GenerateStep
SpecParams == InitParams /\ [][NextParams]_vars

\* Successive generate calls, each kept in the history.
InitRepeat == InitWith({name_some_llama}, {-1, 0, 1}, TRUE)
NextRepeat ==
    \/ Construct
    \/ Tokenize
    \/ Detokenize
    \/ GenerateBegin({<<"a">>}, {MaxPredict},
                     {CallbackNone, [kind |-> "cancel", at |-> 2]}, SeedParams)
    \/ GenerateStep
SpecRepeat == InitRepeat /\ [][NextRepeat]_vars

\* Construction over all model names.
InitFamily == InitWith(AllNames, {-1}, FALSE)
NextFamily == Construct
SpecFamily == InitFamily /\ [][NextFamily]_vars

-----------------------------------------------------------------------------
(* Properties *)

\* The chunk of each token of ts.
Chunks(ts) == [i \in 1..Len(ts) |-> DetokOne(ts[i])]

\* The tokens of ts before its first end-of-sequence token.
BeforeEos(ts) ==
    IF \E i \in 1..Len(ts) : IsEosToken(ts[i])
    THEN SubSeq(ts, 1, (CHOOSE i \in 1..Len(ts) :
                           /\ IsEosToken(ts[i])
                           /\ \A j \in 1..(i - 1) : ~IsEosToken(ts[j])) - 1)
    ELSE ts

\* The first n elements of s (all of s when it has fewer, none when n < 0).
Take(s, n) == SubSeq(s, 1, IF n < Len(s) THEN n ELSE Len(s))

InGenerate == op = "generate" /\ pc # "idle"

\* C1: with n_predict >= 0, at most n_predict chunks are appended to the
\* output of a generate call; with n_predict = 0 the output stays empty and
\* the callback is never invoked.
C1_AtMostMaxTokens ==
    (InGenerate /\ n_predict >= 0) =>
        /\ Len(appended) <= n_predict
        /\ output = Concat(appended)
        /\ (n_predict = 0 => output = <<>> /\ cb_log = <<>>)

\* A call that stopped at the limit with n_predict >= 1 chunks appended.
C1_Witness ==
    /\ pc = "return"
    /\ exit_by = "limit"
    /\ n_predict >= 1
    /\ Len(appended) = n_predict

\* C2: when the callback returns falsy on the k-th produced token, the output
\* is the concatenation of the first k-1 chunks in production order, the k-th
\* chunk is not appended, and the call goes straight to its return: no k+1-th
\* token is pulled and the callback is not invoked again.
C2_CancelDropsChunk ==
    /\ (InGenerate /\ exit_by = "cancel") =>
          /\ pc = "return"
          /\ callback.kind = "cancel"
          /\ Len(cb_log) = callback.at
          /\ Len(produced) = callback.at
          /\ appended = SubSeq(Chunks(produced), 1, callback.at - 1)
          /\ output = Concat(SubSeq(Chunks(produced), 1, callback.at - 1))
    /\ (pc = "return" /\ callback.kind = "cancel" /\ Len(cb_log) = callback.at)
          => exit_by = "cancel"

\* A cancellation on a later than the first token, with text already appended.
C2_Witness ==
    /\ pc = "return"
    /\ exit_by = "cancel"
    /\ callback.at >= 2
    /\ output # <<>>

\* C3: no exception escapes generate. Whatever raised (the model's reset,
\* tokenize, stream, end-of-sequence test or detokenize, or the callback),
\* the call returns, and it returns the concatenation of the chunks appended
\* before the raise.
C3_NoExceptionEscapes ==
    op = "generate" =>
        /\ outcome \in {"running", "returned"}
        /\ (pc = "except" => exit_by = "except" /\ ex # "")
        /\ (pc = "return" => output = Concat(appended))
        /\ (pc = "idle" => outcome = "returned" /\ ret = Concat(appended))

\* A call that returned text after an exception was caught.
C3_Witness ==
    /\ op = "generate"
    /\ pc = "idle"
    /\ exit_by = "except"
    /\ outcome = "returned"
    /\ ret # <<>>

\* What a call without cancellation and without errors is to return: the
\* chunks of the tokens produced before the first end-of-sequence token, at
\* most n_predict of them.
Emitted(ts, n) == Concat(Take(Chunks(BeforeEos(ts)), n))

\* C4: generate called with the callback argument left out, the model raising
\* nothing, returns the chunks of all tokens produced before the first
\* end-of-sequence token or the n_predict limit.
C4_OmittedCallbackKeepsAll ==
    (pc = "return" /\ callback.kind = "bool" /\ ~faulted) =>
        output = Emitted(produced, n_predict)

\* The same with callback=None passed explicitly, or a callback that always
\* returns truthy.
C4_NoneOrAcceptingKeepsAll ==
    (pc = "return" /\ callback.kind \in {"None", "accept"} /\ ~faulted) =>
        output = Emitted(produced, n_predict)

\* C5: every generate call resets the model before it tokenizes the prompt
\* and before its first token is produced, whatever state the earlier call
\* left; the tokens of a call are produced from its own prompt and its own
\* tokens only.
C5_ResetBeforeEachCall ==
    /\ (pc \in {"tokenize", "open"} \/ (pc = "next" /\ produced = <<>>))
          => n_past = 0
    /\ (pc \in {"test", "detok", "callback"})
          => n_past = Len(tokens) + Len(produced)

\* A call past its reset that found state left by an earlier call.
C5_Witness ==
    /\ pc = "tokenize"
    /\ entry_dirty
    /\ n_past = 0

\* C6: two generate calls in succession with identical prompt, n_predict,
\* callback and params, the seed in params being >= 0, return the same output
\* (the model raising in neither).
C6_RepeatDeterministic ==
    (/\ pc = "return"
     /\ history.runs # <<>>
     /\ "seed" \in DOMAIN call_params
     /\ call_params["seed"] >= 0
     /\ ~faulted
     /\ ~history.runs[1].faulted
     /\ history.runs[1].prompt = prompt
     /\ history.runs[1].n_predict = n_predict
     /\ history.runs[1].callback = callback
     /\ history.runs[1].params = call_params)
        => output = history.runs[1].out

\* The same for the seed of the host configuration, which is the one handed
\* to the model.
C6_RepeatDeterministicConfigSeed ==
    (/\ pc = "return"
     /\ history.runs # <<>>
     /\ config.seed >= 0
     /\ ~faulted
     /\ ~history.runs[1].faulted
     /\ history.runs[1].prompt = prompt
     /\ history.runs[1].n_predict = n_predict
     /\ history.runs[1].callback = callback
     /\ history.runs[1].params = call_params)
        => output = history.runs[1].out

\* The defaults as documented.
DocumentedDefault(k) ==
    CASE k = "temperature" -> 70
      [] k = "top_k" -> 50
      [] k = "top_p" -> 96
      [] k = "repeat_penalty" -> 130
      [] k = "seed" -> -1
      [] k = "n_threads" -> 8

C8_FamilyResolution ==
    ctor # "pending" =>
        LET n == config.model_name
            g1 == Contains(s_gpt2, n)
            g2 == Contains(s_gptj, n)
            g3 == Contains(s_gpt_neox, n)
            g4 == Contains(s_dolly_v2, n)
            g5 == \E x \in {s_starcoder, s_starchat_beta, s_WizardCoder} :
                     Contains(x, n)
            g6 == Contains(s_mpt, n)
            g7 == \E x \in {s_llama, s_wizardlm, s_vigogne, s_ggml} :
                     Contains(x, Lower(n))
        IN  /\ (model_type = "gpt2") <=> g1
            /\ (model_type = "gptj") <=> (g2 /\ ~g1)
            /\ (model_type = "gpt_neox") <=> (g3 /\ ~(g1 \/ g2))
            /\ (model_type = "dolly-v2") <=> (g4 /\ ~(g1 \/ g2 \/ g3))
            /\ (model_type = "starcoder") <=> (g5 /\ ~(g1 \/ g2 \/ g3 \/ g4))
            /\ (model_type = "mpt") <=> (g6 /\ ~(g1 \/ g2 \/ g3 \/ g4 \/ g5))
            /\ (model_type = "llama")
                  <=> (g7 /\ ~(g1 \/ g2 \/ g3 \/ g4 \/ g5 \/ g6))
            /\ (model_type = "")
                  <=> ~(g1 \/ g2 \/ g3 \/ g4 \/ g5 \/ g6 \/ g7)
            /\ (n = name_some_llama => model_type = "llama")
            /\ (n = name_foo_starchat => model_type = "starcoder")
            /\ (n = p_unknown_arch => model_type = "")
            /\ IF model_type = ""
               THEN /\ ctor = "returned"
                    /\ model = "unset"
                    /\ console = <<UnsupportedMessage>>
               ELSE /\ console = <<>>
                    /\ (ctor = "returned" <=> model = "loaded")

\* A name that is of the llama family only through lower-casing.
C8_Witness ==
    /\ ctor = "returned"
    /\ model_type = "llama"
    /\ model = "loaded"
    /\ ~Contains(s_llama, config.model_name)
    /\ Contains(s_llama, Lower(config.model_name))

\* C9: during a generate call with a callback, the callback has been invoked
\* with the chunks of the first produced tokens, one invocation per token and
\* in production order, never with the chunk of an end-of-sequence token nor
\* once n_predict chunks were appended; the invocations are as many as the
\* chunks appended, or one more (the invocation in progress, or the one that
\* cancelled or raised); count is the number of chunks appended.
C9_CallbackBookkeeping ==
    (InGenerate /\ callback.kind # "None") =>
        /\ Len(cb_log) <= Len(produced)
        /\ cb_log = SubSeq(Chunks(produced), 1, Len(cb_log))
        /\ \A i \in 1..Len(cb_log) :
              /\ ~IsEosToken(produced[i])
              /\ i <= n_predict
        /\ appended = SubSeq(cb_log, 1, Len(appended))
        /\ Len(cb_log) \in {Len(appended), Len(appended) + 1}
        /\ (Len(cb_log) = Len(appended) + 1) =>
              (pc = "callback" \/ exit_by = "cancel" \/ (exit_by = "except" /\ ~faulted))
        /\ count = Len(appended)

\* The second invocation in progress, the first chunk appended.
C9_Witness ==
    /\ pc = "callback"
    /\ Len(cb_log) = 2
    /\ Len(appended) = 1
    /\ cb_log[1] # cb_log[2]

\* C10: an adapter constructed with a model_name of no family has no model
\* and its constructor did not raise; every generate call on it returns the
\* empty string without invoking the callback, every tokenize or detokenize
\* call on it raises to the caller.
C10_UnusableAdapter ==
    (ctor # "pending" /\ ModelType(config.model_name) = "") =>
        /\ ctor = "returned"
        /\ model = "unset"
        /\ cb_log = <<>>
        /\ produced = <<>>
        /\ op = "generate" => outcome \in {"running", "returned"}
        /\ (op = "generate" /\ pc = "idle") => (outcome = "returned" /\ ret = <<>>)
        /\ op \in {"tokenize", "detokenize"} =>
              (outcome = "raised" /\ ex = "AttributeError")

\* On such an adapter, a generate call that returned, then a tokenize or
\* detokenize call that raised.
C10_Witness ==
    /\ model = "unset"
    /\ ctor = "returned"
    /\ calls = 2
    /\ Len(console) = 2
    /\ op \in {"tokenize", "detokenize"}
    /\ outcome = "raised"

====
